---- MODULE Spec2Model ----
(***************************************************************************)
(* Model of bot.py: a Discord listener that mirrors Instagram media.       *)
(* One coroutine on_message runs per received message.  Every await of a   *)
(* platform call (send / delete / edit) and the await of the fetch that    *)
(* was handed to the executor is one action: the call, its result, and the *)
(* synchronous code that follows up to the next await.                     *)
(* The fetch runs on a worker thread of the event loop's default executor:  *)
(* it is queued, started when a worker is free, and returns or never does. *)
(***************************************************************************)
EXTENDS Integers, Sequences, FiniteSets, TLC

\* ------------------------------------------------------------------ bounds
NumMsgs == 1          \* messages received in Spec (one run of on_message each)
NumConc == 2          \* messages received in SpecConc, processed concurrently
PoolSize == 1         \* worker threads of the executor the fetch is handed to
SizeSlack == 1        \* artifact sizes range over ceiling - slack .. ceiling + slack
MaxTextLen == 2       \* parts joined into a text the link matcher is examined on

\* --------------------------------------------------------------- constants
DefaultUploadMB == 8  \* default of DISCORD_MAX_UPLOAD_MB

Msgs == 1..NumConc     \* message ids; a run of on_message has the id of its message
Solo == 1..NumMsgs     \* the messages received in Spec
None == "None"
NoExc == "NoExc"
NoAck == 0             \* ack = None; a created handle is the id of its run
Unset == "Unset"       \* a local that is not bound yet

\* Values DISCORD_MAX_UPLOAD_MB can be configured to (line 19).
UploadMBChoices == {1, DefaultUploadMB}

\* -------------------------------------------------- texts and the link pattern
\* A text is a sequence of one-character strings.  Str gives the text as a
\* string, the form in which match.group(1) is kept.
RECURSIVE Str(_)
Str(s) == IF s = <<>> THEN "" ELSE s[1] \o Str(Tail(s))

RECURSIVE Join(_)
Join(parts) == IF parts = <<>> THEN <<>> ELSE parts[1] \o Join(Tail(parts))

LowerLetters == <<"a", "b", "c", "d", "e", "f", "g", "h", "i", "j", "k", "l", "m", "n", "o", "p", "q", "r", "s", "t", "u", "v", "w", "x", "y", "z">>
UpperLetters == <<"A", "B", "C", "D", "E", "F", "G", "H", "I", "J", "K", "L", "M", "N", "O", "P", "Q", "R", "S", "T", "U", "V", "W", "X", "Y", "Z">>
Digits == {"0", "1", "2", "3", "4", "5", "6", "7", "8", "9"}
Punctuation == {"_", "-", "/", "?", "=", "&", "%", "."}
Range(s) == {s[k] : k \in 1..Len(s)}
UpperSet == Range(UpperLetters)
LowerOf == [c \in UpperSet |->
               LowerLetters[CHOOSE k \in 1..Len(UpperLetters) : UpperLetters[k] = c]]
ClassChars == Range(LowerLetters) \cup UpperSet \cup Digits \cup Punctuation

\* Mutant of the flag: re.IGNORECASE is left out.
FoldExact(c) == c

\* re.IGNORECASE (line 28): letters are compared by their lower-case form.
Fold(c) == IF c \in UpperSet THEN LowerOf[c] ELSE c

\* The class [A-Za-z0-9_\-/?=&%\.] of line 27.
InClass(c) == c \in ClassChars

Lit(s) == [op |-> "lit", arg |-> s]
Opt(s) == [op |-> "opt", arg |-> s]
Alt(ss) == [op |-> "alt", arg |-> ss]
ClassPlus == [op |-> "plus", arg |-> <<>>]

\* Line 27: https?://(?:www\.)?instagram\.com/(?:reel|p|tv|stories)/[...]+
INSTAGRAM_REGEX ==
    << Lit(<<"h", "t", "t", "p">>), Opt(<<"s">>), Lit(<<":", "/", "/">>),
       Opt(<<"w", "w", "w", ".">>),
       Lit(<<"i", "n", "s", "t", "a", "g", "r", "a", "m", ".", "c", "o", "m", "/">>),
       Alt(<< <<"r", "e", "e", "l">>,
              <<"p">>,
              <<"t", "v">>,
              <<"s", "t", "o", "r", "i", "e", "s">> >>),
       Lit(<<"/">>), ClassPlus >>

\* The literal lit stands in text at position pos.
LitAt(text, pos, lit) ==
    /\ pos + Len(lit) - 1 <= Len(text)
    /\ \A k \in 1..Len(lit) : Fold(text[pos + k - 1]) = Fold(lit[k])

\* Length of the longest run of class characters from pos.
RECURSIVE ClassRun(_, _)
ClassRun(text, pos) ==
    IF pos <= Len(text) /\ InClass(text[pos]) THEN 1 + ClassRun(text, pos + 1) ELSE 0

\* The backtracking matcher of re: Match(text, k, pos) is the position after
\* the match of the pattern elements k.. at pos, or 0 when there is none.
\* An optional element is tried taken first, alternatives in their order,
\* a repetition longest first.
RECURSIVE Match(_, _, _), TryAlt(_, _, _, _), TryRun(_, _, _, _)
Match(text, k, pos) ==
    IF k > Len(INSTAGRAM_REGEX) THEN pos
    ELSE LET e == INSTAGRAM_REGEX[k] IN
         CASE e.op = "lit" ->
                IF LitAt(text, pos, e.arg)
                THEN Match(text, k + 1, pos + Len(e.arg)) ELSE 0
           [] e.op = "opt" ->
                LET taken == IF LitAt(text, pos, e.arg)
                             THEN Match(text, k + 1, pos + Len(e.arg)) ELSE 0
                IN  IF taken # 0 THEN taken ELSE Match(text, k + 1, pos)
           [] e.op = "alt" -> TryAlt(text, k, pos, 1)
           [] e.op = "plus" -> TryRun(text, k, pos, ClassRun(text, pos))

TryAlt(text, k, pos, a) ==
    LET alts == INSTAGRAM_REGEX[k].arg IN
    IF a > Len(alts) THEN 0
    ELSE LET r == IF LitAt(text, pos, alts[a])
                  THEN Match(text, k + 1, pos + Len(alts[a])) ELSE 0
         IN  IF r # 0 THEN r ELSE TryAlt(text, k, pos, a + 1)

TryRun(text, k, pos, n) ==
    IF n < 1 THEN 0
    ELSE LET r == Match(text, k + 1, pos + n)
         IN  IF r # 0 THEN r ELSE TryRun(text, k, pos, n - 1)

\* Parts of a text: a well-formed link, links with one part changed, and
\* plain text.  Parts are joined without a separator.
Parts ==
    { <<"h", "t", "t", "p", "s", ":", "/", "/", "w", "w", "w", ".", "i", "n", "s", "t", "a", "g", "r", "a", "m", ".", "c", "o", "m", "/", "r", "e", "e", "l", "/", "A", "B", "C", "1", "2", "3">>,
      <<"h", "t", "t", "p", ":", "/", "/", "w", "w", "w", ".", "i", "n", "s", "t", "a", "g", "r", "a", "m", ".", "c", "o", "m", "/", "r", "e", "e", "l", "/", "A", "B", "C", "1", "2", "3">>,
      <<"H", "T", "T", "P", "S", ":", "/", "/", "w", "w", "w", ".", "i", "n", "s", "t", "a", "g", "r", "a", "m", ".", "c", "o", "m", "/", "r", "e", "e", "l", "/", "A", "B", "C", "1", "2", "3">>,
      <<"h", "t", "p", "s", ":", "/", "/", "w", "w", "w", ".", "i", "n", "s", "t", "a", "g", "r", "a", "m", ".", "c", "o", "m", "/", "r", "e", "e", "l", "/", "A", "B", "C", "1", "2", "3">>,
      <<"h", "t", "t", "p", "s", ":", "/", "w", "w", "w", ".", "i", "n", "s", "t", "a", "g", "r", "a", "m", ".", "c", "o", "m", "/", "r", "e", "e", "l", "/", "A", "B", "C", "1", "2", "3">>,
      <<"h", "t", "t", "p", "s", ":", "/", "/", "i", "n", "s", "t", "a", "g", "r", "a", "m", ".", "c", "o", "m", "/", "r", "e", "e", "l", "/", "A", "B", "C", "1", "2", "3">>,
      <<"h", "t", "t", "p", "s", ":", "/", "/", "w", "w", ".", "i", "n", "s", "t", "a", "g", "r", "a", "m", ".", "c", "o", "m", "/", "r", "e", "e", "l", "/", "A", "B", "C", "1", "2", "3">>,
      <<"h", "t", "t", "p", "s", ":", "/", "/", "w", "w", "w", ".", "I", "n", "s", "t", "a", "g", "r", "a", "m", ".", "C", "o", "m", "/", "r", "e", "e", "l", "/", "A", "B", "C", "1", "2", "3">>,
      <<"h", "t", "t", "p", "s", ":", "/", "/", "w", "w", "w", ".", "i", "n", "s", "t", "a", "g", "r", "a", "m", "X", "c", "o", "m", "/", "r", "e", "e", "l", "/", "A", "B", "C", "1", "2", "3">>,
      <<"h", "t", "t", "p", "s", ":", "/", "/", "w", "w", "w", ".", "i", "n", "s", "t", "a", "g", "r", "a", "m", ".", "c", "o", "m", "/", "p", "/", "A", "B", "C", "1", "2", "3">>,
      <<"h", "t", "t", "p", "s", ":", "/", "/", "w", "w", "w", ".", "i", "n", "s", "t", "a", "g", "r", "a", "m", ".", "c", "o", "m", "/", "t", "v", "/", "A", "B", "C", "1", "2", "3">>,
      <<"h", "t", "t", "p", "s", ":", "/", "/", "w", "w", "w", ".", "i", "n", "s", "t", "a", "g", "r", "a", "m", ".", "c", "o", "m", "/", "s", "t", "o", "r", "i", "e", "s", "/", "A", "B", "C", "1", "2", "3">>,
      <<"h", "t", "t", "p", "s", ":", "/", "/", "w", "w", "w", ".", "i", "n", "s", "t", "a", "g", "r", "a", "m", ".", "c", "o", "m", "/", "r", "e", "e", "l", "s", "/", "A", "B", "C", "1", "2", "3">>,
      <<"h", "t", "t", "p", "s", ":", "/", "/", "w", "w", "w", ".", "i", "n", "s", "t", "a", "g", "r", "a", "m", ".", "c", "o", "m", "/", "T", "V", "/", "A", "B", "C", "1", "2", "3">>,
      <<"h", "t", "t", "p", "s", ":", "/", "/", "w", "w", "w", ".", "i", "n", "s", "t", "a", "g", "r", "a", "m", ".", "c", "o", "m", "/", "x", "/", "A", "B", "C", "1", "2", "3">>,
      <<"h", "t", "t", "p", "s", ":", "/", "/", "w", "w", "w", ".", "i", "n", "s", "t", "a", "g", "r", "a", "m", ".", "c", "o", "m", "/", "r", "e", "e", "l", "/">>,
      <<"h", "t", "t", "p", "s", ":", "/", "/", "w", "w", "w", ".", "i", "n", "s", "t", "a", "g", "r", "a", "m", ".", "c", "o", "m", "/", "r", "e", "e", "l", "/", "a", "_", "b", "-", "c", "/", "d", "?", "e", "=", "f", "&", "g", "%", "h", ".", "i">>,
      <<"h", "t", "t", "p", "s", ":", "/", "/", "w", "w", "w", ".", "i", "n", "s", "t", "a", "g", "r", "a", "m", ".", "c", "o", "m", "/", "r", "e", "e", "l", "/", "A", "#", "B">>,
      <<"h", "e", "l", "l", "o">>,
      <<" ">> }

ScenarioText ==
    <<"c", "h", "e", "c", "k", " ", "t", "h", "i", "s", " ", "o", "u", "t", " ", "h", "t", "t", "p", "s", ":", "/", "/", "i", "n", "s", "t", "a", "g", "r", "a", "m", ".", "c", "o", "m", "/", "r", "e", "e", "l", "/", "A", "B", "C", "1", "2", "3", " ", "c", "o", "o", "l">>


\* Texts the link matcher is examined on.
Texts ==
    {Join(ps) : ps \in UNION {[1..n -> Parts] : n \in 0..MaxTextLen}}
    \cup {ScenarioText}

\* The rejection notice of lines 127-130 ends with this text and the URL.
NoticePrefix == <<"m", "a", "n", "u", "a", "l", "l", "y", " ", "h", "e", "r", "e", ":", " ">>
NoticeText(link) == NoticePrefix \o link

\* Texts of the messages the runs are examined on: no link, a link, and the
\* text of a rejection notice, which embeds a link.
NoticeTexts == {NoticeText(<<"h", "t", "t", "p", "s", ":", "/", "/", "w", "w", "w", ".", "i", "n", "s", "t", "a", "g", "r", "a", "m", ".", "c", "o", "m", "/", "p", "/", "B">>)}
SampleTexts ==
    { <<"h", "e", "l", "l", "o">>,
      <<"h", "t", "t", "p", "s", ":", "/", "/", "i", "n", "s", "t", "a", "g", "r", "a", "m", ".", "c", "o", "m", "/", "r", "e", "e", "l", "/", "A">> }
    \cup NoticeTexts

Authors == {"user", "client.user"}

\* Errors the platform calls can answer with.  discord.Forbidden is the
\* distinguished permission refusal; ValueError is raised by send for a
\* malformed files argument; HTTPException stands for transport errors.
SendErrors == {"HTTPException", "ValueError"}
DeleteErrors == {"Forbidden", "HTTPException"}
EditErrors == {"HTTPException"}
Ok == "ok"

\* Files the extraction engine can leave in the scoped directory.
FileNames == {"media.mp4", "cover.tmp"}
PreparedNames == {"media.mp4", "media.jpg"}

VARIABLES
    MAX_UPLOAD_MB, \* configured ceiling in MB
    content,       \* content[m]: message.content, a text
    author,        \* author[m]: message.author
    info,          \* info[m]: what extract_info gave download_media
    pc,            \* pc[m]: the await on_message(m) is suspended at
    url,           \* url[m]: match.group(1), or None
    ack,           \* ack[m]: the acknowledgment handle, or NoAck
    downloaded,    \* downloaded[m]: path returned by download_media
    filesize,      \* filesize[m]: st_size read by safe_send_file, -1 before
    exc,           \* exc[m]: exception bound by "except Exception as exc"
    escaped,       \* escaped[m]: exception that left on_message, or NoExc
    original,      \* original[m]: "present" / "deleted" triggering message
    ackMsg,        \* ackMsg[m]: the acknowledgment message in the channel
    posted,        \* posted[m]: other messages the run posted in the channel
    tdir,          \* tdir[m]: the run's TemporaryDirectory
    calls          \* calls[m]: platform calls issued by the run, with results

vars == <<MAX_UPLOAD_MB, content, author, info, pc, url, ack, downloaded, filesize, exc, escaped,
          original, ackMsg, posted, tdir, calls>>

\* ---------------------------------------------------------------- helpers

\* INSTAGRAM_REGEX.search(message.content): the match at the leftmost
\* position that has one, as the string match.group(1), or None.
RECURSIVE SearchFrom(_, _)
SearchFrom(text, i) ==
    IF i > Len(text) THEN None
    ELSE IF Match(text, 1, i) # 0
         THEN Str(SubSeq(text, i, Match(text, 1, i) - 1))
    ELSE SearchFrom(text, i + 1)

INSTAGRAM_REGEX_search(text) == SearchFrom(text, 1)

max_bytes == MAX_UPLOAD_MB * 1024 * 1024

\* Sizes an artifact can have: the values around the ceiling.
Sizes == (max_bytes - SizeSlack)..(max_bytes + SizeSlack)

\* Mutant of the gate: the boundary is rejected (">=" for ">").
TooBigAtBoundary(size) == size >= max_bytes

\* The size gate of safe_send_file: TRUE when ValueError is raised.
TooBig(size) == size > max_bytes

\* dest_folder.glob("media.*")
HasStem(f) == f \in PreparedNames
Glob(files) == {f \in files : HasStem(f)}

\* What the extraction engine does: it raises, or it returns info (None or a
\* descriptor whose prepared filename is info) and leaves files on disk.
EngineResults ==
    [raised : {TRUE}, info : {None}, files : SUBSET FileNames]
    \cup [raised : {FALSE}, info : PreparedNames \cup {None}, files : SUBSET FileNames]

\* Mutant: the reported filename is returned without looking at the disk.
download_mediaTrustsEngine(eng) ==
    IF eng.raised THEN {[ok |-> FALSE, val |-> "DownloadError"]}
    ELSE IF eng.info = None THEN {[ok |-> FALSE, val |-> "RuntimeError"]}
    ELSE {[ok |-> TRUE, val |-> eng.info]}

\* download_media after extract_info: the set of results it can produce.
\* glob order is not specified, so matches[0] is any match.
download_media(eng) ==
    IF eng.raised THEN {[ok |-> FALSE, val |-> "DownloadError"]}
    ELSE IF eng.info = None THEN {[ok |-> FALSE, val |-> "RuntimeError"]}
    ELSE IF eng.info \in eng.files THEN {[ok |-> TRUE, val |-> eng.info]}
    ELSE IF Glob(eng.files) # {}
         THEN {[ok |-> TRUE, val |-> f] : f \in Glob(eng.files)}
    ELSE {[ok |-> FALSE, val |-> "FileNotFoundError"]}

\* What extract_info left for the rest of download_media of run m.
Extracted(m) ==
    [raised |-> info[m] = "raised",
     info |-> IF info[m] = "raised" THEN None ELSE info[m],
     files |-> tdir[m].files]

NoDir == [exists |-> FALSE, files |-> {}, cleanups |-> 0]

\* TemporaryDirectory.__exit__: remove the directory and everything in it.
Cleanup(d) == [exists |-> FALSE, files |-> {}, cleanups |-> d.cleanups + 1]

\* A platform call as the channel saw it: the operation and whether it succeeded.
Call(op, res) == [op |-> op, ok |-> (res = Ok)]
Post(kind, arg) == [kind |-> kind, arg |-> arg]

Log(m, op, res) == calls' = [calls EXCEPT ![m] = Append(@, Call(op, res))]

\* Going on to the next await inside the "with" block.
Goto(m, label) ==
    /\ pc' = [pc EXCEPT ![m] = label]
    /\ UNCHANGED <<tdir, escaped, exc>>

\* Mutant of the scope exit: cleanup at the end of the block instead of a
\* "with", so an error leaving the block skips it.
LeaveWithoutFinally(m, e) ==
    /\ pc' = [pc EXCEPT ![m] = "done"]
    /\ tdir' = [tdir EXCEPT ![m] = IF e = NoExc THEN Cleanup(@) ELSE @]
    /\ escaped' = [escaped EXCEPT ![m] = e]
    /\ UNCHANGED exc

\* Leaving the "with" block and on_message: normally, or with error e.
Leave(m, e) ==
    /\ pc' = [pc EXCEPT ![m] = "done"]
    /\ tdir' = [tdir EXCEPT ![m] = Cleanup(@)]
    /\ escaped' = [escaped EXCEPT ![m] = e]
    /\ UNCHANGED exc

\* Mutant of the handler: the notice is always posted, the acknowledgment
\* is never edited.
ExceptLabelAlwaysPosts(a) == "failure_send"

\* Mutant of the handler: the acknowledgment is assumed to exist.
ExceptLabelAlwaysEdits(a) == "ack_edit"

\* The handler "except Exception as exc" (lines 152-160) is entered with
\* error e: it edits the acknowledgment when there is one, else it posts.
ExceptLabel(a) == IF a # NoAck THEN "ack_edit" ELSE "failure_send"

Except(m, e) ==
    /\ exc' = [exc EXCEPT ![m] = e]
    /\ pc' = [pc EXCEPT ![m] = ExceptLabel(ack[m])]
    /\ UNCHANGED <<tdir, escaped>>

\* Mutant of the acknowledgment removal: the delete is left out.
RemoveAckSkipped(m) == Leave(m, NoExc)

\* Lines 145-150 and the end of the "with" block: the acknowledgment is
\* removed when there is one, else the run is over.
RemoveAck(m) ==
    IF ack[m] # NoAck THEN Goto(m, "ack_delete") ELSE Leave(m, NoExc)

\* Mutant of the send result: an error of the send is ignored and the
\* original is deleted all the same.
SendFileNextIgnoresFailure(res) == "delete_original"

\* Lines 121-136: where the result of safe_send_file's channel.send leads.
\* "except ValueError" catches the send's ValueError like the gate's.
\* Mutant: after a successful upload the original is left alone.
SendFileNextSkipsDeletion(res) ==
    IF res = Ok THEN "remove_ack"
    ELSE IF res = "ValueError" THEN "rejection_send"
    ELSE "except"

SendFileNext(res) ==
    IF res = Ok THEN "delete_original"
    ELSE IF res = "ValueError" THEN "rejection_send"
    ELSE "except"

\* Lines 137-143: where the result of message.delete() leads.
\* Mutant: "except Exception" of line 142 is left out.
DeleteOriginalNextUnguarded(res) ==
    IF res = Ok THEN "remove_ack"
    ELSE IF res = "Forbidden" THEN "permission_send"
    ELSE "except"

DeleteOriginalNext(res) ==
    IF res = "Forbidden" THEN "permission_send" ELSE "remove_ack"

\* The text of line 128-129 carries the URL; lines 156 and 160 carry exc.
RejectionNotice(u) == Post("rejection", Str(NoticePrefix) \o u)
FailureNotice(e) == Post("failure", e)

Branch(m, label, e) ==
    IF label = "except" THEN Except(m, e)
    ELSE IF label = "remove_ack" THEN RemoveAck(m)
    ELSE Goto(m, label)

\* Mutant of the entry of on_message: the author is not looked at.
IgnoredWithoutAuthorCheck(a, match) == match = None

\* Lines 92-93 and 100-102: on_message returns at once for a message of the
\* bot itself and for a text without a link.
Ignored(a, match) == a = "client.user" \/ match = None

\* ------------------------------------------------------------------- Init
\* A message as on_message sees it.
Message(a, text) == [author |-> a, content |-> text]

\* Messages the runs are examined on: of a user without and with a link,
\* and of the bot itself, its rejection notice among them.
SampleMessages ==
    {Message("user", t) : t \in SampleTexts \ NoticeTexts}
    \cup {Message("client.user", t) : t \in NoticeTexts}

\* The state before any message is received.  The ceiling is configured to
\* one of ceilings; the messages 1..n are any of messages; the other ids
\* stand for no message.
Start(ceilings, n, messages) ==
    /\ MAX_UPLOAD_MB \in ceilings
    /\ \E msg \in [1..n -> messages] :
         /\ content = [m \in Msgs |-> IF m <= n THEN msg[m].content ELSE <<>>]
         /\ author = [m \in Msgs |-> IF m <= n THEN msg[m].author ELSE "user"]
    /\ info = [m \in Msgs |-> Unset]
    /\ pc = [m \in Msgs |-> "new"]
    /\ url = [m \in Msgs |-> None]
    /\ ack = [m \in Msgs |-> NoAck]
    /\ downloaded = [m \in Msgs |-> None]
    /\ filesize = [m \in Msgs |-> -1]
    /\ exc = [m \in Msgs |-> NoExc]
    /\ escaped = [m \in Msgs |-> NoExc]
    /\ original = [m \in Msgs |-> "present"]
    /\ ackMsg = [m \in Msgs |-> Post("absent", None)]
    /\ posted = [m \in Msgs |-> {}]
    /\ tdir = [m \in Msgs |-> NoDir]
    /\ calls = [m \in Msgs |-> <<>>]

Init == Start(UploadMBChoices, NumMsgs, SampleMessages)

\* ---------------------------------------------------------------- actions

\* Lines 90-105: the event arrives; own messages and texts without a link
\* are ignored; otherwise the run goes on to post the acknowledgment.
OnMessage(m) ==
    /\ pc[m] = "new"
    /\ LET match == INSTAGRAM_REGEX_search(content[m]) IN
         IF Ignored(author[m], match)
         THEN /\ pc' = [pc EXCEPT ![m] = "ignored"]
              /\ UNCHANGED url
         ELSE /\ pc' = [pc EXCEPT ![m] = "ack_send"]
              /\ url' = [url EXCEPT ![m] = match]
    /\ UNCHANGED <<MAX_UPLOAD_MB, content, author, info, ack, downloaded, filesize, exc, escaped,
                   original, ackMsg, posted, tdir, calls>>

\* Lines 107-117: the acknowledgment post returns (any error gives
\* ack = None); the temporary directory is created and the fetch is handed
\* to the executor.
AckSend(m) ==
    /\ pc[m] = "ack_send"
    /\ \E res \in {Ok} \cup SendErrors :
         /\ Log(m, "send_ack", res)
         /\ IF res = Ok
            THEN /\ ack' = [ack EXCEPT ![m] = m]
                 /\ ackMsg' = [ackMsg EXCEPT ![m] = Post("downloading", None)]
            ELSE UNCHANGED <<ack, ackMsg>>
    /\ tdir' = [tdir EXCEPT ![m] = [exists |-> TRUE, files |-> {}, cleanups |-> 0]]
    /\ pc' = [pc EXCEPT ![m] = "queued"]
    /\ UNCHANGED <<MAX_UPLOAD_MB, content, author, info, url, downloaded, filesize, exc, escaped,
                   original, posted>>

\* Line 117, run_in_executor(None, ...): the default executor runs the
\* submitted download_media as soon as one of its worker threads is free.
\* A worker is busy until the download_media it runs returns.
Busy == {r \in Msgs : pc[r] \in {"fetching", "extracted", "hung"}}
WorkerFree == Cardinality(Busy) < PoolSize

StartFetch(m) ==
    /\ pc[m] = "queued"
    /\ WorkerFree
    /\ pc' = [pc EXCEPT ![m] = "fetching"]
    /\ UNCHANGED <<MAX_UPLOAD_MB, content, author, info, url, ack, downloaded, filesize,
                   exc, escaped, original, ackMsg, posted, tdir, calls>>

\* Lines 57-58, on the worker thread: extract_info raises, or returns None
\* or a descriptor, and has written files into the directory.
Extract(m) ==
    /\ pc[m] = "fetching"
    /\ \E eng \in EngineResults :
         /\ tdir' = [tdir EXCEPT ![m].files = eng.files]
         /\ info' = [info EXCEPT ![m] = IF eng.raised THEN "raised" ELSE eng.info]
    /\ pc' = [pc EXCEPT ![m] = "extracted"]
    /\ UNCHANGED <<MAX_UPLOAD_MB, content, author, url, ack, downloaded, filesize,
                   exc, escaped, original, ackMsg, posted, calls>>

\* Line 57 without an end: extract_info never returns (no timeout is set on
\* the fetch), and the worker thread stays with it.
Hang(m) ==
    /\ pc[m] = "fetching"
    /\ pc' = [pc EXCEPT ![m] = "hung"]
    /\ UNCHANGED <<MAX_UPLOAD_MB, content, author, info, url, ack, downloaded, filesize,
                   exc, escaped, original, ackMsg, posted, tdir, calls>>

\* Lines 59-73 and 117: download_media locates the file and returns from
\* the executor, with a path or an error, and the coroutine resumes.
Download(m) ==
    /\ pc[m] = "extracted"
    /\ \E r \in download_media(Extracted(m)) :
         /\ IF r.ok
            THEN /\ downloaded' = [downloaded EXCEPT ![m] = r.val]
                 /\ pc' = [pc EXCEPT ![m] = "safe_send_file"]
                 /\ UNCHANGED exc
            ELSE /\ exc' = [exc EXCEPT ![m] = r.val]
                 /\ pc' = [pc EXCEPT ![m] = ExceptLabel(ack[m])]
                 /\ UNCHANGED downloaded
    /\ info' = [info EXCEPT ![m] = Unset]
    /\ UNCHANGED <<MAX_UPLOAD_MB, content, author, url, ack, filesize, escaped, original,
                   ackMsg, posted, tdir, calls>>

\* Lines 121-123 with safe_send_file (75-83): the size is read and gated;
\* within the ceiling the file goes to channel.send.  ValueError, from the
\* gate or from the send, is caught by "except ValueError"; any other error
\* goes to the outer handler.
SafeSendFile(m) ==
    /\ pc[m] = "safe_send_file"
    /\ \E size \in Sizes :
         /\ filesize' = [filesize EXCEPT ![m] = size]
         /\ IF TooBig(size)
            THEN /\ Goto(m, "rejection_send")
                 /\ UNCHANGED <<posted, calls>>
            ELSE \E res \in {Ok} \cup SendErrors :
                 /\ Log(m, "send_file", res)
                 /\ IF res = Ok
                    THEN /\ posted' = [posted EXCEPT ![m] =
                                         @ \cup {Post("attachment", downloaded[m])}]
                    ELSE UNCHANGED posted
                 /\ Branch(m, SendFileNext(res), res)
    /\ UNCHANGED <<MAX_UPLOAD_MB, content, author, info, url, ack, downloaded, original, ackMsg>>

\* Lines 127-132: the rejection notice with the original URL is posted.
RejectionSend(m) ==
    /\ pc[m] = "rejection_send"
    /\ \E res \in {Ok} \cup SendErrors :
         /\ Log(m, "send_rejection", res)
         /\ IF res = Ok
            THEN /\ posted' = [posted EXCEPT ![m] = @ \cup {RejectionNotice(url[m])}]
                 /\ IF ack[m] # NoAck
                    THEN Goto(m, "rejection_ack_delete")
                    ELSE Leave(m, NoExc)
            ELSE /\ UNCHANGED posted
                 /\ Except(m, res)
    /\ UNCHANGED <<MAX_UPLOAD_MB, content, author, info, url, ack, downloaded, filesize, original, ackMsg>>

\* Lines 133-134: ack.delete() on the rejection path, then return.  The call
\* is inside the outer try, so its error enters the outer handler.
RejectionAckDelete(m) ==
    /\ pc[m] = "rejection_ack_delete"
    /\ \E res \in {Ok} \cup DeleteErrors :
         /\ Log(m, "delete_ack", res)
         /\ IF res = Ok
            THEN /\ ackMsg' = [ackMsg EXCEPT ![m] = Post("deleted", None)]
                 /\ Leave(m, NoExc)
            ELSE /\ UNCHANGED ackMsg
                 /\ Except(m, res)
    /\ UNCHANGED <<MAX_UPLOAD_MB, content, author, info, url, ack, downloaded, filesize, original, posted>>

\* Lines 137-143: message.delete() after a successful upload.  Forbidden
\* leads to the permission request; any other error is logged.
DeleteOriginal(m) ==
    /\ pc[m] = "delete_original"
    /\ \E res \in {Ok} \cup DeleteErrors :
         /\ Log(m, "delete_original", res)
         /\ original' = [original EXCEPT ![m] = IF res = Ok THEN "deleted" ELSE @]
         /\ Branch(m, DeleteOriginalNext(res), res)
    /\ UNCHANGED <<MAX_UPLOAD_MB, content, author, info, url, ack, downloaded, filesize, ackMsg, posted>>

\* Line 141: the permission request is posted; the call is not guarded, so
\* its error enters the outer handler.
PermissionSend(m) ==
    /\ pc[m] = "permission_send"
    /\ \E res \in {Ok} \cup SendErrors :
         /\ Log(m, "send_permission", res)
         /\ IF res = Ok
            THEN /\ posted' = [posted EXCEPT ![m] = @ \cup {Post("permission", None)}]
                 /\ RemoveAck(m)
            ELSE /\ UNCHANGED posted
                 /\ Except(m, res)
    /\ UNCHANGED <<MAX_UPLOAD_MB, content, author, info, url, ack, downloaded, filesize, original, ackMsg>>

\* Lines 146-150: ack.delete() after delivery, errors swallowed.
AckDelete(m) ==
    /\ pc[m] = "ack_delete"
    /\ \E res \in {Ok} \cup DeleteErrors :
         /\ Log(m, "delete_ack", res)
         /\ ackMsg' = [ackMsg EXCEPT ![m] = IF res = Ok THEN Post("deleted", None) ELSE @]
    /\ Leave(m, NoExc)
    /\ UNCHANGED <<MAX_UPLOAD_MB, content, author, info, url, ack, downloaded, filesize, original, posted>>

\* Lines 154-158: the acknowledgment is edited to the failure notice,
\* errors swallowed.
AckEdit(m) ==
    /\ pc[m] = "ack_edit"
    /\ \E res \in {Ok} \cup EditErrors :
         /\ Log(m, "edit_ack", res)
         /\ ackMsg' = [ackMsg EXCEPT ![m] = IF res = Ok THEN FailureNotice(exc[m]) ELSE @]
    /\ Leave(m, NoExc)
    /\ UNCHANGED <<MAX_UPLOAD_MB, content, author, info, url, ack, downloaded, filesize, original, posted>>

\* Lines 159-160: without an acknowledgment the failure notice is posted;
\* the call is not guarded, so its error leaves on_message.
FailureSend(m) ==
    /\ pc[m] = "failure_send"
    /\ \E res \in {Ok} \cup SendErrors :
         /\ Log(m, "send_failure", res)
         /\ posted' = [posted EXCEPT ![m] =
                         IF res = Ok THEN @ \cup {FailureNotice(exc[m])} ELSE @]
         /\ Leave(m, IF res = Ok THEN NoExc ELSE res)
    /\ UNCHANGED <<MAX_UPLOAD_MB, content, author, info, url, ack, downloaded, filesize, original, ackMsg>>

\* One step of the run of on_message for message m.
Step(m) ==
    \/ OnMessage(m)
    \/ AckSend(m)
    \/ StartFetch(m)
    \/ Extract(m)
    \/ Download(m)
    \/ SafeSendFile(m)
    \/ RejectionSend(m)
    \/ RejectionAckDelete(m)
    \/ DeleteOriginal(m)
    \/ PermissionSend(m)
    \/ AckDelete(m)
    \/ AckEdit(m)
    \/ FailureSend(m)

Next == \E m \in Solo : Step(m)

Spec == Init /\ [][Next]_vars

\* The link matcher on its own: one message of a user with any of Texts is
\* received and on_message runs up to its first await.
InitMatch == Start({DefaultUploadMB}, 1, {Message("user", t) : t \in Texts})
NextMatch == OnMessage(1)
SpecMatch == InitMatch /\ [][NextMatch]_vars

\* Concurrent runs: NumConc messages with a link are received from users;
\* their runs interleave at the awaits, and a fetch may never return.
LinkTexts == {t \in SampleTexts : INSTAGRAM_REGEX_search(t) # None}
InitConc == Start({DefaultUploadMB}, NumConc, {Message("user", t) : t \in LinkTexts})
NextConc == \E m \in Msgs : Step(m) \/ Hang(m)
SpecConc == InitConc /\ [][NextConc]_vars

\* ------------------------------------------------- observations of a run
Done(m) == pc[m] = "done"
Matched(m) == url[m] # None
CallsOf(m, op) == {i \in 1..Len(calls[m]) : calls[m][i].op = op}
Called(m, op) == CallsOf(m, op) # {}
Succeeded(m, op) == \E i \in CallsOf(m, op) : calls[m][i].ok
Failed(m, op) == \E i \in CallsOf(m, op) : ~calls[m][i].ok
LastCall(m) == calls[m][Len(calls[m])]
HasPost(m, kind) == \E p \in posted[m] : p.kind = kind
AttachmentSent(m) == HasPost(m, "attachment")
OriginalDeleted(m) == original[m] = "deleted"
HasAck(m) == ack[m] # NoAck
\* A failure notice is visible: as an edit of the acknowledgment or as a post.
FailureNoticeShown(m) == ackMsg[m].kind = "failure" \/ HasPost(m, "failure")
\* download_media has returned with an error.
FetchFailed(m) ==
    /\ pc[m] \in {"ack_edit", "failure_send", "done"}
    /\ downloaded[m] = None
\* The gate of safe_send_file has raised for the fetched artifact.
SizeRejected(m) == filesize[m] # -1 /\ filesize[m] > max_bytes

\* ------------------------------------------------------------------ C1
\* C1 as stated: when a run has ended, the original message is deleted if
\* and only if the attachment send succeeded.
C1_DeletedIffSent ==
    \A m \in Msgs : Done(m) => (OriginalDeleted(m) <=> AttachmentSent(m))

\* C1 amended: the original is deleted only if the attachment send
\* succeeded; after a successful send the deletion is attempted exactly once,
\* and the run ends with the original deleted iff that delete call succeeded.
C1_DeletedIffSentAndDeleteOk ==
    \A m \in Msgs :
        /\ OriginalDeleted(m) => AttachmentSent(m)
        /\ Called(m, "delete_original") => AttachmentSent(m)
        /\ Done(m) =>
             /\ AttachmentSent(m) <=> Cardinality(CallsOf(m, "delete_original")) = 1
             /\ OriginalDeleted(m) <=>
                  (AttachmentSent(m) /\ Succeeded(m, "delete_original"))

C1_Witness ==
    \E m \in Msgs :
        Done(m) /\ AttachmentSent(m) /\ Failed(m, "delete_original")
        /\ ~OriginalDeleted(m)

\* ------------------------------------------------------------------ C2
\* C2 as stated: when a run that created the acknowledgment has ended, the
\* acknowledgment is deleted or shows a failure notice.
C2_AckNeverLeftDownloading ==
    \A m \in Msgs :
        (Done(m) /\ HasAck(m)) => ackMsg[m].kind \in {"deleted", "failure"}

\* C2 amended: when a run that created the acknowledgment has ended, its
\* last platform call was a delete or an edit of the acknowledgment, and the
\* acknowledgment still shows the "downloading" text only if that call failed.
C2_AckResolvedUnlessLastCallFailed ==
    \A m \in Msgs :
        (Done(m) /\ HasAck(m)) =>
            /\ LastCall(m).op \in {"delete_ack", "edit_ack"}
            /\ LastCall(m).ok => ackMsg[m].kind \in {"deleted", "failure"}
            /\ ackMsg[m].kind \in {"deleted", "failure", "downloading"}

C2_Witness ==
    \E m \in Msgs :
        Done(m) /\ HasAck(m) /\ AttachmentSent(m) /\ ackMsg[m].kind = "deleted"

\* ------------------------------------------------------------------ C3
\* C3: a run for a matched message ends with the user-visible effect of
\* exactly one outcome among a delivered attachment, a rejection notice and
\* a failure notice: never of two, and of none only when the platform
\* refused the last call, the one that would have shown it.
OutcomesShown(m) ==
    {o \in {"attachment", "rejection", "failure"} :
        IF o = "failure" THEN FailureNoticeShown(m) ELSE HasPost(m, o)}

C3_ExactlyOneOutcome ==
    \A m \in Msgs :
        (Done(m) /\ Matched(m)) =>
            /\ Cardinality(OutcomesShown(m)) <= 1
            /\ OutcomesShown(m) = {} => ~LastCall(m).ok

\* ------------------------------------------------------------------ C4
\* C4: the temporary directory is reclaimed at most once, and when the run
\* of a matched message has ended it has been reclaimed exactly once and
\* holds no file; outside a run no directory and no file exists.
C4_TempDirReclaimedOnce ==
    \A m \in Msgs :
        /\ tdir[m].cleanups <= 1
        /\ (Done(m) /\ Matched(m)) =>
             tdir[m].cleanups = 1 /\ tdir[m].files = {} /\ ~tdir[m].exists
        /\ pc[m] \in {"new", "ignored", "ack_send", "done"} =>
             tdir[m].files = {} /\ ~tdir[m].exists

\* The run fetched a file and ended with an error raised while reporting.
C4_Witness ==
    \E m \in Msgs :
        Done(m) /\ downloaded[m] # None /\ escaped[m] # NoExc
        /\ tdir[m].cleanups = 1

\* ------------------------------------------------------------------ C5
\* C5: no error propagates out of on_message.
C5_NoErrorEscapes == \A m \in Msgs : escaped[m] = NoExc

\* ------------------------------------------------------------------ C6
\* C6: once safe_send_file has read the size s, the artifact has been handed
\* to the send primitive iff s <= c, with c = MAX_UPLOAD_MB * 1024 * 1024.
C6_SizeGate ==
    \A m \in Msgs :
        /\ Called(m, "send_file") => filesize[m] # -1
        /\ filesize[m] # -1 =>
             (Called(m, "send_file") <=> filesize[m] <= MAX_UPLOAD_MB * 1048576)

\* The boundary s = c went to the send primitive.
C6_Witness ==
    \E m \in Msgs : filesize[m] = max_bytes /\ Called(m, "send_file")

\* ------------------------------------------------------------------ C7
\* The failure notice carrying the cause is what the acknowledgment shows
\* when there is one, and a post in the conversation when there is none.
NoticeWithCause(m) ==
    IF HasAck(m) THEN ackMsg[m] = Post("failure", exc[m])
    ELSE Post("failure", exc[m]) \in posted[m]

\* C7 as stated: when the fetch has failed and the run has ended, no
\* attachment was sent, the original is not deleted, and the failure notice
\* with the cause has been produced.
C7_FetchFailureReported ==
    \A m \in Msgs :
        (Done(m) /\ FetchFailed(m)) =>
            ~AttachmentSent(m) /\ ~OriginalDeleted(m) /\ NoticeWithCause(m)

\* C7 amended: when the fetch has failed, no attachment is sent and the
\* original is not deleted; the run then issues exactly one more platform
\* call, an edit of the acknowledgment when it exists and a post when it
\* does not, and the failure notice with the cause is shown iff that call
\* succeeded.
C7_FetchFailureNoticeAttempted ==
    \A m \in Msgs :
        FetchFailed(m) =>
            /\ ~Called(m, "send_file") /\ ~AttachmentSent(m)
            /\ ~OriginalDeleted(m)
            /\ exc[m] \in {"DownloadError", "RuntimeError", "FileNotFoundError"}
            /\ Done(m) =>
                 /\ Len(calls[m]) = 2
                 /\ LastCall(m).op = IF HasAck(m) THEN "edit_ack" ELSE "send_failure"
                 /\ NoticeWithCause(m) <=> LastCall(m).ok
                 /\ FailureNoticeShown(m) <=> LastCall(m).ok

C7_Witness ==
    \E m \in Msgs :
        Done(m) /\ FetchFailed(m) /\ HasAck(m) /\ NoticeWithCause(m)

\* ------------------------------------------------------------------ C8
\* C8: when the fetched artifact exceeds the ceiling and the run has ended,
\* no attachment was sent, the original is not deleted and the rejection
\* post was issued; when that post succeeded, the notice carries the
\* original URL, the acknowledgment (if any) got its delete call, and the
\* run ended without a failure notice being shown or attempted.
C8_RejectionPath ==
    \A m \in Msgs :
        (Done(m) /\ SizeRejected(m)) =>
            /\ ~Called(m, "send_file") /\ ~AttachmentSent(m)
            /\ ~OriginalDeleted(m)
            /\ Called(m, "send_rejection")
            /\ Succeeded(m, "send_rejection") =>
                 /\ RejectionNotice(url[m]) \in posted[m]
                 /\ HasAck(m) => Called(m, "delete_ack")
                 /\ ~FailureNoticeShown(m)
                 /\ ~Called(m, "edit_ack") /\ ~Called(m, "send_failure")

\* ------------------------------------------------------------------ C9
\* C9: when the attachment send was issued and failed, the run is not
\* treated as a size rejection (no rejection notice is posted or attempted,
\* the acknowledgment is not deleted), the original is not deleted, and the
\* failure report is issued.
C9_SendFailureIsNotRejection ==
    \A m \in Msgs :
        (Done(m) /\ Failed(m, "send_file")) =>
            /\ ~Called(m, "send_rejection") /\ ~HasPost(m, "rejection")
            /\ ackMsg[m].kind # "deleted"
            /\ ~OriginalDeleted(m)
            /\ Called(m, IF HasAck(m) THEN "edit_ack" ELSE "send_failure")

\* ----------------------------------------------------------------- C10
\* C10: when deletion of the original was refused for lack of permission
\* (the permission request was issued) and the run has ended, the run is a
\* delivery: no failure notice is shown or attempted and no error escaped.
C10_ForbiddenIsNotFatal ==
    \A m \in Msgs :
        (Done(m) /\ Called(m, "send_permission")) =>
            /\ AttachmentSent(m)
            /\ ~FailureNoticeShown(m)
            /\ ~Called(m, "edit_ack") /\ ~Called(m, "send_failure")
            /\ escaped[m] = NoExc

\* ----------------------------------------------------------------- C11
\* The fetch of run m has not started / has returned a path.
FetchNotStarted(m) ==
    /\ info[m] = Unset /\ downloaded[m] = None
    /\ tdir[m].files = {} /\ pc[m] \notin {"fetching", "extracted"}
FetchReturned(m) == downloaded[m] # None /\ pc[m] \notin {"queued", "fetching", "extracted"}

\* Call j of run m was preceded by a call op / a successful call op.
AttemptedBefore(m, op, j) == \E i \in 1..(j - 1) : calls[m][i].op = op
SucceededBefore(m, op, j) ==
    \E i \in 1..(j - 1) : calls[m][i].op = op /\ calls[m][i].ok

\* The acknowledgment post is attempted before the fetch starts, and is the
\* first call of a run.
AckBeforeFetch(m) ==
    /\ pc[m] \in {"new", "ignored", "ack_send"} => calls[m] = <<>> /\ FetchNotStarted(m)
    /\ calls[m] # <<>> => calls[m][1].op = "send_ack"
    /\ ~FetchNotStarted(m) => Called(m, "send_ack")

\* The fetch completes before the size check and the attachment send.
FetchBeforeSend(m) ==
    (filesize[m] # -1 \/ Called(m, "send_file")) => FetchReturned(m)

\* The attachment send returns success before deletion of the original is
\* attempted.
SendBeforeDeleteOriginal(m) ==
    \A j \in CallsOf(m, "delete_original") : SucceededBefore(m, "send_file", j)

\* When fetch, send and both deletions succeed and the artifact is within
\* the ceiling, the run ends with attachment sent, original and
\* acknowledgment deleted.
AllSucceedDelivers(m) ==
    (/\ FetchReturned(m) /\ ~SizeRejected(m)
     /\ Succeeded(m, "send_file")
     /\ Succeeded(m, "delete_original")
     /\ Succeeded(m, "delete_ack")) =>
        /\ Done(m) /\ escaped[m] = NoExc
        /\ AttachmentSent(m) /\ OriginalDeleted(m)
        /\ ackMsg[m].kind = "deleted"
        /\ ~FailureNoticeShown(m) /\ ~HasPost(m, "rejection")

\* C11 as stated: the steps of a run are strictly sequential -- the
\* acknowledgment post before the fetch, the fetch before size check and
\* send, a successful send before the attempt to delete the original, the
\* deletion of the acknowledgment only after the attempt to delete the
\* original (looked at in runs all of whose platform calls succeed) -- and
\* the all-success run delivers.  Violated: the rejection path deletes the
\* acknowledgment and never attempts to delete the original.
C11_StrictlySequential ==
    \A m \in Msgs :
        /\ AckBeforeFetch(m) /\ FetchBeforeSend(m) /\ SendBeforeDeleteOriginal(m)
        /\ (\A i \in 1..Len(calls[m]) : calls[m][i].ok) =>
              \A j \in CallsOf(m, "delete_ack") :
                  AttemptedBefore(m, "delete_original", j)
        /\ AllSucceedDelivers(m)

\* C11 amended: as above, with the last ordering stated for the delivery
\* path: after a successful attachment send the acknowledgment is deleted
\* only after the attempt to delete the original.
C11_SequentialOnDelivery ==
    \A m \in Msgs :
        /\ AckBeforeFetch(m) /\ FetchBeforeSend(m) /\ SendBeforeDeleteOriginal(m)
        /\ \A j \in CallsOf(m, "delete_ack") :
              SucceededBefore(m, "send_file", j) =>
                  AttemptedBefore(m, "delete_original", j)
        /\ AllSucceedDelivers(m)

\* The all-success run has ended, its four calls in order.
C11_Witness ==
    \E m \in Msgs :
        /\ Done(m)
        /\ calls[m] = << Call("send_ack", Ok), Call("send_file", Ok),
                         Call("delete_original", Ok), Call("delete_ack", Ok) >>

\* ----------------------------------------------------------------- C12
\* Runs whose fetch was started and does not return.
Stalled == {r \in Msgs : pc[r] = "hung"}

\* C12: a stalled fetch never blocks the processing of other messages:
\* whatever number of earlier fetches have not returned, an acknowledged
\* message waiting for its fetch has its fetch started.  Violated: with
\* every worker of the executor held by a stalled fetch the fetch of the
\* later message is not started.
C12_StalledFetchNeverBlocks ==
    \A m \in Msgs :
        (pc[m] = "queued" /\ Stalled # {}) => ENABLED StartFetch(m)

\* ----------------------------------------------------------------- C13
\* The outcome branch a run entered, read from its first call after the
\* acknowledgment post, and the branch the fetch result and the artifact
\* size call for.
BranchTaken(m) ==
    LET op == calls[m][2].op IN
    IF op = "send_file" THEN "delivery"
    ELSE IF op = "send_rejection" THEN "rejection"
    ELSE "failure"

BranchDue(m) ==
    IF downloaded[m] = None THEN "failure"
    ELSE IF filesize[m] > max_bytes THEN "rejection"
    ELSE "delivery"

\* C13: when the acknowledgment post fails the run goes on without a
\* handle: it waits for the fetch, it enters the outcome branch that the
\* fetch result and the size call for, the same as with a handle, and no
\* edit or delete of an acknowledgment is issued by a run without a handle.
C13_AckFailureTolerated ==
    \A m \in Msgs :
        /\ Failed(m, "send_ack") => ~HasAck(m) /\ ackMsg[m].kind = "absent"
        /\ (Failed(m, "send_ack") /\ Len(calls[m]) = 1) =>
               /\ escaped[m] = NoExc
               /\ pc[m] \in {"queued", "fetching", "extracted", "safe_send_file",
                              "rejection_send", "failure_send"}
        /\ Len(calls[m]) >= 2 =>
               /\ downloaded[m] # None \/ exc[m] # NoExc
               /\ BranchTaken(m) = BranchDue(m)
        /\ ~HasAck(m) => ~Called(m, "delete_ack") /\ ~Called(m, "edit_ack")

\* A run whose acknowledgment post failed has delivered the attachment and
\* ended.
C13_Witness ==
    \E m \in Msgs :
        /\ Failed(m, "send_ack") /\ Done(m)
        /\ AttachmentSent(m) /\ OriginalDeleted(m)

\* ----------------------------------------------------------------- C14
\* The link grammar in the words of the specification: the scheme http or
\* https, "://", optionally "www.", "instagram.com/", one of the types reel,
\* p, tv, stories, "/", then one or more characters of the class; letters of
\* the fixed parts in either case.
Schemes == {<<"h", "t", "t", "p">>, <<"h", "t", "t", "p", "s">>}
OptionalWww == {<<>>, <<"w", "w", "w", ".">>}
LinkTypes == {<<"r", "e", "e", "l">>, <<"p">>, <<"t", "v">>, <<"s", "t", "o", "r", "i", "e", "s">>}
LinkPrefixes ==
    {sch \o <<":", "/", "/">> \o w \o <<"i", "n", "s", "t", "a", "g", "r", "a", "m", ".", "c", "o", "m", "/">> \o ty \o <<"/">> :
        sch \in Schemes, w \in OptionalWww, ty \in LinkTypes}

SameLetter(a, b) ==
    \/ a = b
    \/ a \in UpperSet /\ LowerOf[a] = b
    \/ b \in UpperSet /\ LowerOf[b] = a

PrefixAt(text, i, p) ==
    /\ i + Len(p) - 1 <= Len(text)
    /\ \A k \in 1..Len(p) : SameLetter(text[i + k - 1], p[k])

\* s conforms to the grammar.
Conforms(s) ==
    \E p \in LinkPrefixes :
        /\ Len(s) > Len(p)
        /\ PrefixAt(s, 1, p)
        /\ \A k \in (Len(p) + 1)..Len(s) : InClass(s[k])

\* A conforming substring of text starts at i: the shortest one is a prefix
\* and one character of the class.
StartsLink(text, i) ==
    \E p \in LinkPrefixes :
        /\ PrefixAt(text, i, p)
        /\ i + Len(p) <= Len(text)
        /\ InClass(text[i + Len(p)])

ContainsLink(text) == \E i \in 1..Len(text) : StartsLink(text, i)

\* The first conforming substring: it starts where the leftmost one does and
\* runs as far as the class characters do.
FirstLinkStart(text) ==
    CHOOSE i \in 1..Len(text) :
        StartsLink(text, i) /\ \A h \in 1..(i - 1) : ~StartsLink(text, h)

FirstLinkEnd(text) ==
    LET i == FirstLinkStart(text) IN
    CHOOSE j \in i..Len(text) :
        /\ Conforms(SubSeq(text, i, j))
        /\ j = Len(text) \/ ~InClass(text[j + 1])

FirstLink(text) == SubSeq(text, FirstLinkStart(text), FirstLinkEnd(text))

\* C14: the search on the content of a message finds a match exactly when
\* the content contains a substring that conforms to the link grammar, in
\* either letter case; the match is the first such substring; and in the
\* text 'check this out https://instagram.com/reel/ABC123 cool' it is
\* exactly 'https://instagram.com/reel/ABC123'.
C14_SearchFindsFirstLink ==
    \A m \in Msgs :
        (pc[m] # "new" /\ author[m] = "user") =>
            /\ (url[m] # None) <=> ContainsLink(content[m])
            /\ (url[m] # None) => url[m] = Str(FirstLink(content[m]))
            /\ (content[m] = ScenarioText) =>
                   url[m] = "https://instagram.com/reel/ABC123"

\* The scenario text was searched and its link found.
C14_Witness ==
    /\ content[1] = ScenarioText
    /\ author[1] = "user"
    /\ pc[1] = "ack_send"
    /\ url[1] = "https://instagram.com/reel/ABC123"

\* ----------------------------------------------------------------- C15
\* What belongs to the run of message m.
RunState(m) ==
    <<pc[m], url[m], ack[m], downloaded[m], filesize[m], exc[m], escaped[m],
      original[m], ackMsg[m], posted[m], tdir[m], info[m], calls[m]>>

\* C15: runs are isolated under every interleaving: a step changes the
\* acknowledgment, directory, posts, triggering message and calls of one run
\* only, an attachment is a file of the run's own directory, and the
\* progress of a run does not depend on the progress of another: while a
\* run waits at an await, no step of another run changes whether it can go
\* on.  Violated: a run waiting for its fetch can go on or not depending on
\* the fetches of other runs.
C15_RunsIsolated ==
    [][\A m \in Msgs :
          /\ RunState(m)' # RunState(m) =>
                \A r \in Msgs \ {m} : RunState(r)' = RunState(r)
          /\ \A p \in posted'[m] \ posted[m] :
                p.kind = "attachment" => p.arg \in tdir[m].files
          /\ (RunState(m)' = RunState(m) /\ pc[m] = "queued") =>
                (WorkerFree' <=> WorkerFree)]_vars

\* ----------------------------------------------------------------- C16
FetchErrors == {"DownloadError", "RuntimeError", "FileNotFoundError"}

\* download_media of run m is past extract_info: what it can return.
ReturnsOf(m) == download_media(Extracted(m))
Fails(m) == ReturnsOf(m) # {} /\ \A r \in ReturnsOf(m) : ~r.ok /\ r.val \in FetchErrors

\* C16: once the extraction engine has returned, download_media fails when
\* there is no descriptor; returns the reported filename when that file
\* exists; otherwise returns one of the files of the directory with the stem
\* 'media' when there is one; otherwise fails.  A returned path is a file
\* of the run's directory, and a failed fetch enters the caller's handler
\* and does not leave on_message.
C16_LocatesProducedFile ==
    \A m \in Msgs :
        /\ (pc[m] = "extracted" /\ info[m] # "raised") =>
               LET files == tdir[m].files
                   media == {f \in files : HasStem(f)}
               IN  /\ info[m] = None => Fails(m)
                   /\ (info[m] # None /\ info[m] \in files) =>
                          ReturnsOf(m) = {[ok |-> TRUE, val |-> info[m]]}
                   /\ (info[m] # None /\ info[m] \notin files /\ media # {}) =>
                          /\ ReturnsOf(m) # {}
                          /\ \A r \in ReturnsOf(m) : r.ok /\ r.val \in media
                   /\ (info[m] # None /\ info[m] \notin files /\ media = {}) =>
                          Fails(m)
        /\ (downloaded[m] # None /\ tdir[m].exists) =>
               downloaded[m] \in tdir[m].files
        /\ (downloaded[m] = None /\ info[m] = Unset /\ tdir[m].files # {}) =>
               pc[m] \in {"ack_edit", "failure_send"}
        /\ FetchFailed(m) =>
               /\ exc[m] \in FetchErrors
               /\ escaped[m] \notin FetchErrors

\* The reported file and every file with the stem were absent: the fetch
\* failed, the handler showed the failure, the run ended.
C16_Witness ==
    \E m \in Msgs :
        /\ Done(m) /\ exc[m] = "FileNotFoundError"
        /\ downloaded[m] = None /\ escaped[m] = NoExc
        /\ FailureNoticeShown(m)

\* ----------------------------------------------------------------- C17
\* The attachment was sent and deleting the original was not refused for
\* lack of permission: it succeeded, failed otherwise, or is still due.
DeliveredNoRefusal(m) ==
    /\ Succeeded(m, "send_file")
    /\ pc[m] # "permission_send" /\ ~Called(m, "send_permission")

\* C17: after a successful attachment send, an error of deleting the
\* original other than a permission refusal and an error of deleting the
\* acknowledgment are swallowed: no failure notice and no other message is
\* posted, the handler is not entered, nothing leaves on_message, and after
\* the failed deletion of the original the acknowledgment deletion is still
\* attempted when there is an acknowledgment.
C17_CleanupErrorsSwallowed ==
    \A m \in Msgs :
        /\ DeliveredNoRefusal(m) =>
               /\ escaped[m] = NoExc /\ exc[m] = NoExc
               /\ ~FailureNoticeShown(m)
               /\ \A p \in posted[m] : p.kind = "attachment"
               /\ ~Called(m, "edit_ack") /\ ~Called(m, "send_failure")
        /\ (DeliveredNoRefusal(m) /\ Failed(m, "delete_original")) =>
               IF HasAck(m)
               THEN pc[m] = "ack_delete" \/ (Done(m) /\ Called(m, "delete_ack"))
               ELSE Done(m)
        /\ (Succeeded(m, "send_file") /\ Called(m, "delete_ack")) =>
               /\ Done(m) /\ escaped[m] = NoExc
               /\ LastCall(m).op = "delete_ack"
               /\ ~FailureNoticeShown(m)

\* Both deletions failed after a delivery, without a permission refusal.
C17_Witness ==
    \E m \in Msgs :
        /\ Done(m) /\ DeliveredNoRefusal(m)
        /\ Failed(m, "delete_original") /\ Failed(m, "delete_ack")

\* ----------------------------------------------------------------- C18
\* The texts of received messages that contain a link, by the grammar.
TextsWithLink == {t \in SampleTexts : ContainsLink(t)}
\* Message m is of another author and its text contains a link.
Triggering(m) == author[m] # "client.user" /\ content[m] \in TextsWithLink
\* A run was started for message m.
Started(m) == pc[m] \notin {"new", "ignored"}
\* Nothing was done for message m: no platform call, no post, no fetch.
NoOperation(m) ==
    /\ calls[m] = <<>> /\ posted[m] = {}
    /\ ackMsg[m].kind = "absent" /\ original[m] = "present"
    /\ tdir[m] = NoDir /\ info[m] = Unset /\ downloaded[m] = None
    /\ url[m] = None /\ ~HasAck(m)
\* The text of message m is the rejection notice for the link it embeds.
IsRejectionNotice(m) ==
    /\ ContainsLink(content[m])
    /\ Post("rejection", Str(content[m])) = RejectionNotice(Str(FirstLink(content[m])))

\* C18: a run is started only for a message of another author whose text
\* contains a link; for any other message on_message performs no operation;
\* a message of the bot itself, the rejection notice with its embedded link
\* included, starts no run; so there are never more runs than messages of
\* other authors with a link.
C18_OnlyForeignLinksStartRuns ==
    /\ \A m \in Msgs :
          /\ Started(m) => Triggering(m)
          /\ (pc[m] # "new" /\ ~Triggering(m)) => pc[m] = "ignored"
          /\ ~Started(m) => NoOperation(m)
          /\ author[m] = "client.user" => ~Started(m)
    /\ Cardinality({m \in Msgs : Started(m)})
          <= Cardinality({m \in Msgs : Triggering(m)})

\* The bot's rejection notice, link included, was received and ignored.
C18_Witness ==
    \E m \in Msgs :
        /\ author[m] = "client.user" /\ IsRejectionNotice(m)
        /\ pc[m] = "ignored" /\ NoOperation(m)

\* ----------------------------------------------------------------- C19
\* Every other run is at rest: not received, ended, or with a stalled fetch.
OthersAtRest(m) ==
    \A r \in Msgs \ {m} : pc[r] \in {"new", "ignored", "done", "hung"}

\* C19: a run performs a bounded number of platform calls (at most five:
\* post, upload, delete, permission request, edit), it waits only
\* on its own fetch and its own platform calls, and a fetch that never
\* returns keeps only its own run from ending: a started run that has not
\* ended and whose own fetch is not stalled has a step to take, also when all
\* other runs are at rest.  Violated: a run is left waiting for a worker
\* that the stalled fetch of another run holds.
C19_OnlyOwnCallsKeepRunFromEnding ==
    \A m \in Msgs :
        /\ Len(calls[m]) <= 5
        /\ (Started(m) /\ ~Done(m) /\ pc[m] # "hung" /\ OthersAtRest(m)) =>
               ENABLED Step(m)

TypeOK ==
    /\ MAX_UPLOAD_MB \in UploadMBChoices
    /\ \A m \in Msgs :
         /\ info[m] \in {Unset, "raised", None} \cup PreparedNames
         /\ author[m] \in Authors
         /\ ack[m] \in {m, NoAck}
         /\ original[m] \in {"present", "deleted"}
         /\ tdir[m].cleanups \in 0..1

====
